---- MODULE Spec2Model ----
(***************************************************************************)
(* Model of the unescape_zero_copy crate (src/src/lib.rs): the escape      *)
(* decoder (escape_sequence, unicode_char), the Unescaped iterator (new,   *)
(* next, next_fragment, next_escape_sequence) and unescape.                *)
(*                                                                         *)
(* A str is a sequence of characters; a character is its code point.       *)
(* Rust's str is UTF-8, and the code indexes it by byte, so every byte     *)
(* length and byte slice below goes through Utf8Len.                       *)
(* A u32 is the pair [hi, lo] of its 16-bit halves.                        *)
(***************************************************************************)
EXTENDS Integers, Sequences, FiniteSets, TLC

\* ------------------------------------------------------------------ bounds
MaxLen == 5
MaxDigits == 9
MaxOrig == 3
MaxExtraCalls == 2

\* -------------------------------------------------------------- characters
BEL == 7
BS == 8
TAB == 9
LF == 10
VT == 11
FF == 12
CR == 13
DQUOTE == 34
SQUOTE == 39
PLUS == 43
MINUS == 45
SLASH == 47
BSLASH == 92
LBRACE == 123
RBRACE == 125
Ch0 == 48
Ch1 == 49
Ch7 == 55
Ch9 == 57
ChA == 65
ChD == 68
ChF == 70
ChU == 85
ChZ == 90
Cha == 97
Chb == 98
Chf == 102
Chn == 110
Chq == 113
Chr == 114
Cht == 116
Chu == 117
Chv == 118
Chx == 120
Chz == 122
EACUTE == 233

Half == 65536

\* ---------------------------------------------------------------- str, u32
\* s.len(): the length of a str in bytes of UTF-8.
Utf8Len(c) == IF c < 128 THEN 1 ELSE IF c < 2048 THEN 2 ELSE IF c < Half THEN 3 ELSE 4

RECURSIVE ByteLen(_)
ByteLen(s) == IF s = <<>> THEN 0 ELSE Utf8Len(Head(s)) + ByteLen(Tail(s))

\* s.is_char_boundary(n), which the slices &s[0..n] and &s[n..] require.
IsCharBoundary(s, n) == \E k \in 0..Len(s) : ByteLen(SubSeq(s, 1, k)) = n

\* The number of characters in the first n bytes of s (n a char boundary).
CharsInBytes(s, n) == CHOOSE k \in 0..Len(s) : ByteLen(SubSeq(s, 1, k)) = n

Drop(s, k) == SubSeq(s, k + 1, Len(s))

U32(h, l) == [hi |-> h, lo |-> l]
U32Zero == U32(0, 0)

\* char::to_digit(radix): -1 for None.
to_digit(c, radix) ==
    LET d == IF c >= Ch0 /\ c <= Ch9 THEN c - Ch0
             ELSE IF c >= Cha /\ c <= Chz THEN c - Cha + 10
             ELSE IF c >= ChA /\ c <= ChZ THEN c - ChA + 10
             ELSE radix
    IN IF d < radix THEN d ELSE -1

\* char::is_digit(8)
is_digit8(c) == to_digit(c, 8) >= 0

\* The digit loop of u32::from_str_radix: InvalidDigit is reported before the
\* overflow of the same step; for radix 8 and 16 the multiplication is the
\* only place that can overflow.
RECURSIVE FromDigits(_, _, _)
FromDigits(digits, radix, acc) ==
    IF digits = <<>> THEN [ok |-> TRUE, num |-> acc, pie |-> ""]
    ELSE LET x == to_digit(Head(digits), radix)
             low == acc.lo * radix + (IF x < 0 THEN 0 ELSE x)
             high == acc.hi * radix + (low \div Half)
         IN IF x < 0 THEN [ok |-> FALSE, num |-> U32Zero, pie |-> "InvalidDigit"]
            ELSE IF high >= Half THEN [ok |-> FALSE, num |-> U32Zero, pie |-> "PosOverflow"]
            ELSE FromDigits(Tail(digits), radix, U32(high, low % Half))

\* u32::from_str_radix(src, radix): an empty src is Empty, a lone sign is
\* InvalidDigit, a leading '+' is accepted and skipped, '-' is a digit (and
\* so invalid) for an unsigned type.
from_str_radix(src, radix) ==
    IF src = <<>> THEN [ok |-> FALSE, num |-> U32Zero, pie |-> "Empty"]
    ELSE IF Len(src) = 1 /\ Head(src) \in {PLUS, MINUS}
         THEN [ok |-> FALSE, num |-> U32Zero, pie |-> "InvalidDigit"]
    ELSE IF Head(src) = PLUS THEN FromDigits(Tail(src), radix, U32Zero)
    ELSE FromDigits(src, radix, U32Zero)

\* char::from_u32(num).is_some() that only checks the range.
from_u32_range_only(num) == num.hi <= 16

\* char::from_u32(num).is_some(): not a surrogate and at most 0x10FFFF.
from_u32_valid(num) ==
    /\ num.hi <= 16
    /\ ~(num.hi = 0 /\ num.lo >= 55296 /\ num.lo <= 57343)

CodePoint(num) == num.hi * Half + num.lo

\* ------------------------------------------------------------------ Error
NoErr == [kind |-> "", num |-> U32Zero, ch |-> 0, pie |-> ""]
IncompleteSequence == [kind |-> "IncompleteSequence", num |-> U32Zero, ch |-> 0, pie |-> ""]
IncompleteUnicode == [kind |-> "IncompleteUnicode", num |-> U32Zero, ch |-> 0, pie |-> ""]
InvalidUnicode(n) == [kind |-> "InvalidUnicode", num |-> n, ch |-> 0, pie |-> ""]
UnknownSequence(c) == [kind |-> "UnknownSequence", num |-> U32Zero, ch |-> c, pie |-> ""]
ParseIntError(p) == [kind |-> "ParseIntError", num |-> U32Zero, ch |-> 0, pie |-> p]

\* Result<(char, &str), Error>, with Panic for a slice off a char boundary.
DecOk(c, r) == [tag |-> "Ok", ch |-> c, rem |-> r, err |-> NoErr]
DecErr(e) == [tag |-> "Err", ch |-> 0, rem |-> <<>>, err |-> e]
DecPanic == [tag |-> "Panic", ch |-> 0, rem |-> <<>>, err |-> NoErr]

\* ---------------------------------------------------------- Escape decoder
\* let num = u32::from_str_radix(&s[0..n], radix)?;
\* let ch = char::from_u32(num).ok_or(Error::InvalidUnicode(num))?;
\* Ok((ch, rest))
ParseChar(s, n, radix, rest) ==
    IF n > ByteLen(s) \/ ~IsCharBoundary(s, n) THEN DecPanic
    ELSE LET p == from_str_radix(SubSeq(s, 1, CharsInBytes(s, n)), radix)
         IN IF ~p.ok THEN DecErr(ParseIntError(p.pie))
            ELSE IF ~from_u32_valid(p.num) THEN DecErr(InvalidUnicode(p.num))
            ELSE DecOk(CodePoint(p.num), rest)

unicode_char(s, chars) ==
    IF ByteLen(s) < chars THEN DecErr(IncompleteUnicode)
    ELSE IF ~IsCharBoundary(s, chars) THEN DecPanic
    ELSE ParseChar(s, chars, 16, Drop(s, CharsInBytes(s, chars)))

\* 'a' | 'b' | 'f' | 'n' | 'r' | 't' | 'v'
IsControlLetter(c) == c \in {Cha, Chb, Chf, Chn, Chr, Cht, Chv}

ControlChar(c) ==
    CASE c = Cha -> BEL
      [] c = Chb -> BS
      [] c = Chf -> FF
      [] c = Chn -> LF
      [] c = Chr -> CR
      [] c = Cht -> TAB
      [] c = Chv -> VT

\* '\\' | '\'' | '\"' | '/' and '\r' | '\n'
IsLiteralEscape(c) == c \in {BSLASH, SQUOTE, DQUOTE, SLASH, CR, LF}

\* chars.by_ref().take_while(|n| *n != '}').count()
RECURSIVE CountUntilBrace(_)
CountUntilBrace(s) ==
    IF s = <<>> \/ Head(s) = RBRACE THEN 0 ELSE 1 + CountUntilBrace(Tail(s))

\* s.chars().take_while(|n| n.is_digit(8)).count()
RECURSIVE CountOctal(_)
CountOctal(s) ==
    IF s = <<>> \/ ~is_digit8(Head(s)) THEN 0 ELSE 1 + CountOctal(Tail(s))

OctalWidth == 3

Min(a, b) == IF a < b THEN a ELSE b

\* The 'u' arm with '{' that leaves the '}' in the remainder.
braced_unicode_keep_brace(s) ==
    LET size == CountUntilBrace(s)
    IN ParseChar(s, size, 16, Drop(s, size))

\* The 'u' arm with '{': size counts characters and is used as a byte index;
\* take_while also consumes the '}' it stops at.
braced_unicode(s) ==
    LET size == CountUntilBrace(s)
    IN ParseChar(s, size, 16, Drop(s, size + 1))

\* The `_` arm without the limit of three digits.
octal_all_digits(s) ==
    LET count == CountOctal(s)
    IN IF count > 0 THEN ParseChar(s, count, 8, Drop(s, count))
       ELSE DecErr(UnknownSequence(Head(s)))

\* The `_` arm: up to three octal digits, else UnknownSequence.
octal_or_unknown(s) ==
    LET count == Min(CountOctal(s), OctalWidth)
    IN IF count > 0 THEN ParseChar(s, count, 8, Drop(s, count))
       ELSE DecErr(UnknownSequence(Head(s)))

\* called after encountering the backslash
escape_sequence(s) ==
    IF s = <<>> THEN DecErr(IncompleteSequence)
    ELSE LET nx == Head(s)
             rest == Tail(s)
         IN IF IsControlLetter(nx) THEN DecOk(ControlChar(nx), rest)
            ELSE IF IsLiteralEscape(nx) THEN DecOk(nx, rest)
            ELSE IF nx = Chx THEN unicode_char(rest, 2)
            ELSE IF nx = Chu THEN
                IF rest # <<>> /\ Head(rest) = LBRACE THEN braced_unicode(Tail(rest))
                ELSE unicode_char(rest, 4)
            ELSE IF nx = ChU THEN unicode_char(rest, 8)
            ELSE octal_or_unknown(s)

\* ------------------------------------------------------- Unescaped iterator
VARIABLES
    input,      \* the &str handed to Unescaped::new, unescape or escape_sequence
    split,      \* Unescaped.split: [rest, finished] of core::str::Split
    rem,        \* Unescaped.rem: Option<Chars>, [some, s]
    ret,        \* the value the last call returned
    call,       \* the last call: "next" or "next_fragment"
    dec,        \* the escape_sequence invocation of the last call, if any
    terminal,   \* a call has returned None, an error or panicked
    yielded,    \* everything yielded before terminal
    outcome,    \* the return value that made terminal true
    extra,      \* the number of calls made after terminal
    out,        \* unescape: the Cow being built, [owned, text]
    pc,         \* unescape: "run" in the loop, "done" after the return
    result,     \* unescape: the returned Result
    orig        \* the text whose escaped form is the input

vars == <<input, split, rem, ret, call, dec, terminal, yielded, outcome, extra,
          out, pc, result, orig>>

None == [some |-> FALSE, s |-> <<>>]
Some(str) == [some |-> TRUE, s |-> str]

\* Option<Result<char, Error>> and Option<Result<StringFragment, Error>>
RetInit == [tag |-> "Init", ch |-> 0, s |-> <<>>, err |-> NoErr]
RetNone == [tag |-> "None", ch |-> 0, s |-> <<>>, err |-> NoErr]
RetChar(c) == [tag |-> "Char", ch |-> c, s |-> <<>>, err |-> NoErr]
RetEscaped(c) == [tag |-> "Escaped", ch |-> c, s |-> <<>>, err |-> NoErr]
RetRaw(str) == [tag |-> "Raw", ch |-> 0, s |-> str, err |-> NoErr]
RetErr(e) == [tag |-> "Err", ch |-> 0, s |-> <<>>, err |-> e]
RetPanic == [tag |-> "Panic", ch |-> 0, s |-> <<>>, err |-> NoErr]

NoDec == [some |-> FALSE, token |-> <<>>, res |-> DecPanic]
Dec(tok, r) == [some |-> TRUE, token |-> tok, res |-> r]

\* The state of the iterator after a call, what the call returned, and the
\* escape_sequence invocation it made.
Step(sp, rm, r, d) == [split |-> sp, rem |-> rm, ret |-> r, dec |-> d]

\* The index of the first backslash of s, 0 if there is none.
FirstBackslash(s) ==
    IF \E i \in 1..Len(s) : s[i] = BSLASH
    THEN CHOOSE i \in 1..Len(s) : s[i] = BSLASH /\ \A j \in 1..(i - 1) : s[j] # BSLASH
    ELSE 0

\* core::str::Split<char>::next for from.split('\\'): the text up to the next
\* backslash; the text after the last backslash (empty or not) comes last.
split_next(sp) ==
    IF sp.finished THEN [split |-> sp, item |-> None]
    ELSE LET i == FirstBackslash(sp.rest)
         IN IF i = 0
            THEN [split |-> [rest |-> <<>>, finished |-> TRUE], item |-> Some(sp.rest)]
            ELSE [split |-> [rest |-> Drop(sp.rest, i), finished |-> FALSE],
                  item |-> Some(SubSeq(sp.rest, 1, i - 1))]

\* Unescaped::new
new(from) ==
    LET first == split_next([rest |-> from, finished |-> FALSE])
    IN [split |-> first.split,
        rem |-> IF first.item.s = <<>> THEN None ELSE Some(first.item.s)]

\* Unescaped::next_escape_sequence
next_escape_sequence(sp, nx) ==
    LET r == escape_sequence(nx)
    IN CASE r.tag = "Ok" ->
              Step(sp, IF r.rem # <<>> THEN Some(r.rem) ELSE None, RetChar(r.ch), Dec(nx, r))
         [] r.tag = "Err" -> Step(sp, None, RetErr(r.err), Dec(nx, r))
         [] r.tag = "Panic" -> Step(sp, None, RetPanic, Dec(nx, r))

\* The same, ending the iteration quietly on a backslash that ends the input.
after_empty_quiet(sp) ==
    LET second == split_next(sp)
    IN IF ~second.item.some THEN Step(second.split, None, RetNone, NoDec)
       ELSE IF second.item.s = <<>> THEN Step(second.split, None, RetChar(BSLASH), NoDec)
       ELSE Step(second.split, Some(second.item.s), RetChar(BSLASH), NoDec)

\* The segment after an empty segment, which is the text after "\\": None at
\* the end of the input, else a backslash and the segment as the pending text.
after_empty(sp) ==
    LET second == split_next(sp)
    IN IF ~second.item.some THEN Step(second.split, None, RetErr(IncompleteSequence), NoDec)
       ELSE IF second.item.s = <<>> THEN Step(second.split, None, RetChar(BSLASH), NoDec)
       ELSE Step(second.split, Some(second.item.s), RetChar(BSLASH), NoDec)

\* Iterator::next when self.rem is None
next_split(sp) ==
    LET first == split_next(sp)
    IN IF ~first.item.some THEN Step(first.split, None, RetNone, NoDec)
       ELSE IF first.item.s = <<>> THEN after_empty(first.split)
       ELSE next_escape_sequence(first.split, first.item.s)

\* Iterator::next without the retry once the pending text is used up.
next_no_retry(sp, rm) ==
    IF rm.some /\ rm.s # <<>> THEN Step(sp, Some(Tail(rm.s)), RetChar(Head(rm.s)), NoDec)
    ELSE IF rm.some THEN Step(sp, None, RetNone, NoDec)
    ELSE next_split(sp)

\* Iterator::next
next(sp, rm) ==
    IF rm.some /\ rm.s # <<>> THEN Step(sp, Some(Tail(rm.s)), RetChar(Head(rm.s)), NoDec)
    ELSE next_split(sp)

\* self.next().map(|opt| opt.map(StringFragment::Escaped))
AsEscaped(st) ==
    IF st.ret.tag = "Char" THEN [st EXCEPT !.ret = RetEscaped(st.ret.ch)] ELSE st

\* Unescaped::next_fragment
next_fragment(sp, rm) ==
    IF rm.some THEN Step(sp, None, RetRaw(rm.s), NoDec)
    ELSE AsEscaped(next(sp, rm))

\* ---------------------------------------------------------------- inputs
Strings(A, n) == UNION {[1..k -> A] : k \in 0..n}

IterAlphabet == {BSLASH, Chn, Chq, Ch1, Chx}

\* What a call yields: a character, a slice, or nothing.
Yield(r) ==
    CASE r.tag \in {"Char", "Escaped"} -> <<r.ch>>
      [] r.tag = "Raw" -> r.s
      [] OTHER -> <<>>

IsTerminal(r) == r.tag \in {"None", "Err", "Panic"}

IterIdle ==
    /\ ret = RetInit /\ call = "" /\ dec = NoDec
    /\ terminal = FALSE /\ yielded = <<>> /\ outcome = RetInit /\ extra = 0

UnescapeIdle ==
    /\ out = [owned |-> FALSE, text |-> <<>>] /\ pc = "idle"
    /\ result = [tag |-> "", cow |-> [owned |-> FALSE, text |-> <<>>], err |-> NoErr]

Init ==
    /\ input \in Strings(IterAlphabet, MaxLen)
    /\ split = new(input).split
    /\ rem = new(input).rem
    /\ orig = <<>>
    /\ IterIdle
    /\ UnescapeIdle

\* One call on the iterator; the caller may go on calling after the end or an
\* error, but not after a panic.
Called(name, st) ==
    /\ ret.tag # "Panic"
    /\ extra < MaxExtraCalls
    /\ split' = st.split
    /\ rem' = st.rem
    /\ ret' = st.ret
    /\ dec' = st.dec
    /\ call' = name
    /\ terminal' = (terminal \/ IsTerminal(st.ret))
    /\ yielded' = IF terminal THEN yielded ELSE yielded \o Yield(st.ret)
    /\ outcome' = IF ~terminal /\ IsTerminal(st.ret) THEN st.ret ELSE outcome
    /\ extra' = IF terminal THEN extra + 1 ELSE extra
    /\ UNCHANGED <<input, out, pc, result, orig>>

CallNext == Called("next", next(split, rem))

CallNextFragment == Called("next_fragment", next_fragment(split, rem))

Next == CallNext \/ CallNextFragment

Spec == Init /\ [][Next]_vars

\* ---------------------------------------------------------------- unescape
Borrowed(str) == [owned |-> FALSE, text |-> str]
Owned(str) == [owned |-> TRUE, text |-> str]

\* `out += s` that always builds an owned String.
cow_add_assign_owned(cow, s) == Owned(cow.text \o s)

\* `out += s`, AddAssign<&str> for Cow<str>: an empty Cow becomes a borrow of
\* s; else a non-empty s is appended to the Cow made owned.
cow_add_assign(cow, s) ==
    IF cow.text = <<>> THEN Borrowed(s)
    ELSE IF s # <<>> THEN Owned(cow.text \o s)
    ELSE cow

\* `out.to_mut().push(c)` that starts from a fresh String.
cow_push_fresh(cow, c) == Owned(<<c>>)

\* `out.to_mut().push(c)`
cow_push(cow, c) == Owned(cow.text \o <<c>>)

NoResult == [tag |-> "", cow |-> Borrowed(<<>>), err |-> NoErr]
ResOk(cow) == [tag |-> "Ok", cow |-> cow, err |-> NoErr]
ResErr(e) == [tag |-> "Err", cow |-> Borrowed(<<>>), err |-> e]
ResPanic == [tag |-> "Panic", cow |-> Borrowed(<<>>), err |-> NoErr]

\* let mut out = Cow::default(); let mut unescaped = Unescaped::new(s);
UnescapeStart(s) ==
    /\ input = s
    /\ split = new(s).split
    /\ rem = new(s).rem
    /\ out = Borrowed(<<>>)
    /\ pc = "run"
    /\ result = NoResult
    /\ IterIdle

\* The body of the loop for the fragment r, or the return that ends the loop:
\* `?` returns the error, None leaves the loop and returns Ok(out).
UnescapeFragment(st, r) ==
    /\ split' = st.split
    /\ rem' = st.rem
    /\ ret' = r
    /\ dec' = st.dec
    /\ call' = "next_fragment"
    /\ out' = IF r.tag = "Raw" THEN cow_add_assign(out, r.s)
              ELSE IF r.tag = "Escaped" THEN cow_push(out, r.ch)
              ELSE out
    /\ pc' = IF r.tag \in {"Raw", "Escaped"} THEN "run" ELSE "done"
    /\ result' = IF r.tag = "None" THEN ResOk(out)
                 ELSE IF r.tag = "Err" THEN ResErr(r.err)
                 ELSE IF r.tag = "Panic" THEN ResPanic
                 ELSE result
    /\ UNCHANGED <<input, terminal, yielded, outcome, extra, orig>>

\* One turn of `while let Some(fragment) = unescaped.next_fragment().transpose()?`
UnescapeStep ==
    /\ pc = "run"
    /\ UnescapeFragment(next_fragment(split, rem), next_fragment(split, rem).ret)

InitUnescape ==
    /\ \E s \in Strings(IterAlphabet, MaxLen) : UnescapeStart(s)
    /\ orig = <<>>

NextUnescape == UnescapeStep

SpecUnescape == InitUnescape /\ [][NextUnescape]_vars

\* ------------------------------------------------------------- round trip
\* The lower-case hexadecimal digits of n, without leading zeros.
HexDigitChar(d) == IF d < 10 THEN Ch0 + d ELSE Cha + (d - 10)

RECURSIVE ToHex(_)
ToHex(n) == IF n < 16 THEN <<HexDigitChar(n)>> ELSE ToHex(n \div 16) \o <<HexDigitChar(n % 16)>>

\* char::escape_default, as the test inverts_escape_default uses it.
escape_default_char(c) ==
    CASE c = TAB -> <<BSLASH, Cht>>
      [] c = CR -> <<BSLASH, Chr>>
      [] c = LF -> <<BSLASH, Chn>>
      [] c \in {SQUOTE, DQUOTE, BSLASH} -> <<BSLASH, c>>
      [] c >= 32 /\ c <= 126 /\ c \notin {SQUOTE, DQUOTE, BSLASH} -> <<c>>
      [] OTHER -> <<BSLASH, Chu, LBRACE>> \o ToHex(c) \o <<RBRACE>>

RECURSIVE escape_default(_)
escape_default(s) ==
    IF s = <<>> THEN <<>> ELSE escape_default_char(Head(s)) \o escape_default(Tail(s))

MaxChar == 1114111

OrigAlphabet == {TAB, CR, LF, SQUOTE, DQUOTE, BSLASH, Chn, Ch1, RBRACE, BEL, EACUTE, MaxChar}

InitRoundTrip ==
    /\ orig \in Strings(OrigAlphabet, MaxOrig)
    /\ UnescapeStart(escape_default(orig))

SpecRoundTrip == InitRoundTrip /\ [][NextUnescape]_vars

\* ------------------------------------------------- the decoder on its own
DigitAlphabet == {Ch1, ChD}
Heads == {<<>>, <<Chx>>, <<Chu>>, <<ChU>>, <<Chu, LBRACE>>}
Pads == {<<>>, <<Ch0>>, <<PLUS>>, <<EACUTE>>}
Tails == {<<>>, <<RBRACE>>, <<Chq>>, <<EACUTE>>}

Tokens ==
    {h \o p \o d \o t : h \in Heads, p \in Pads,
                        d \in Strings(DigitAlphabet, MaxDigits), t \in Tails}

InitDecode ==
    /\ input \in Tokens
    /\ split = new(input).split
    /\ rem = new(input).rem
    /\ orig = <<>>
    /\ IterIdle
    /\ UnescapeIdle

\* escape_sequence(input)
Decode ==
    /\ ~dec.some
    /\ dec' = Dec(input, escape_sequence(input))
    /\ UNCHANGED <<input, split, rem, ret, call, terminal, yielded, outcome, extra,
                   out, pc, result, orig>>

NextDecode == Decode

SpecDecode == InitDecode /\ [][NextDecode]_vars

\* ------------------------------------------------------------ the claims
NoBackslash(s) == \A i \in 1..Len(s) : s[i] # BSLASH

\* The input not yet consumed: the pending text, then the backslash in front
\* of the rest of the split and that rest.
Unconsumed ==
    rem.s \o (IF split.finished THEN <<>> ELSE <<BSLASH>> \o split.rest)

\* C3: once a call has returned an error or None, every later call returns
\* None.
C3_TerminalAfterErrorOrNone == extra > 0 => ret.tag = "None"

\* C9: every Raw fragment next_fragment returns is non-empty, has no
\* backslash and ends at the next backslash of the input or at its end.
C9_RawFragment ==
    ret.tag = "Raw" =>
        /\ ret.s # <<>>
        /\ NoBackslash(ret.s)
        /\ (Unconsumed = <<>> \/ Head(Unconsumed) = BSLASH)

\* A second iterator over the same input driven only by next(): the text it
\* yields and how it ends.
RECURSIVE RunNext(_, _, _)
RunNext(sp, rm, acc) ==
    LET st == next(sp, rm)
    IN IF IsTerminal(st.ret) THEN [text |-> acc, outcome |-> st.ret]
       ELSE RunNext(st.split, st.rem, acc \o Yield(st.ret))

NextOnly(s) == RunNext(new(s).split, new(s).rem, <<>>)

\* C10: whatever the interleaving of next() and next_fragment(), the text
\* yielded up to the first error or None, and that error or None, are those
\* of an iterator over the same input driven only by next().
C10_FragmentsAgreeWithChars ==
    terminal => /\ yielded = NextOnly(input).text
                /\ outcome = NextOnly(input).outcome

C10_Witness ==
    /\ terminal /\ call = "next_fragment"
    /\ Len(yielded) >= 3
    /\ \E i \in 1..Len(input) : input[i] = BSLASH

\* The longest prefix of octal digits of tok, of length at most 3.
IsOctalChar(c) == c >= Ch0 /\ c <= Ch7

OctalPrefixLen(tok) ==
    CHOOSE k \in 0..3 :
        /\ k <= Len(tok)
        /\ \A i \in 1..k : IsOctalChar(tok[i])
        /\ (k = 3 \/ k = Len(tok) \/ ~IsOctalChar(tok[k + 1]))

RECURSIVE OctalValue(_)
OctalValue(ds) ==
    IF ds = <<>> THEN 0
    ELSE OctalValue(SubSeq(ds, 1, Len(ds) - 1)) * 8 + (ds[Len(ds)] - Ch0)

OctalChar(tok) == OctalValue(SubSeq(tok, 1, OctalPrefixLen(tok)))
OctalRest(tok) == Drop(tok, OctalPrefixLen(tok))

IsOctalToken(d) == d.some /\ d.token # <<>> /\ IsOctalChar(Head(d.token))

\* C8: an escape token that starts with an octal digit decodes to the
\* character of its longest octal prefix of at most 3 digits, leaves the text
\* after that prefix as the remainder, and next_fragment then returns this
\* remainder as one Raw slice.
C8_Octal ==
    [][ /\ IsOctalToken(dec') =>
            /\ dec'.res = DecOk(OctalChar(dec'.token), OctalRest(dec'.token))
            /\ ret'.tag \in {"Char", "Escaped"}
            /\ ret'.ch = OctalChar(dec'.token)
            /\ rem' = IF OctalRest(dec'.token) = <<>> THEN None
                      ELSE Some(OctalRest(dec'.token))
        /\ (IsOctalToken(dec) /\ OctalRest(dec.token) # <<>> /\ call' = "next_fragment") =>
            ret' = RetRaw(OctalRest(dec.token))
      ]_vars

C8_Witness ==
    /\ ret = RetRaw(<<Ch1>>)
    /\ input = <<BSLASH, Ch1, Ch1, Ch1, Ch1>>

C2_RoundTrip ==
    pc = "done" => (result.tag = "Ok" /\ result.cow.text = orig)

C2_Witness ==
    /\ pc = "done" /\ result.tag = "Ok" /\ result.cow.owned
    /\ Len(orig) >= 2 /\ Len(input) > Len(orig)
    /\ \E i \in 1..Len(orig) : orig[i] = EACUTE
    /\ \E i \in 1..Len(orig) : orig[i] = BSLASH

\* A fresh iterator over the input driven only by next_fragment(): the
\* concatenation of its fragments and how it ends.
RECURSIVE RunFragments(_, _, _)
RunFragments(sp, rm, acc) ==
    LET st == next_fragment(sp, rm)
    IN IF IsTerminal(st.ret) THEN [text |-> acc, outcome |-> st.ret]
       ELSE RunFragments(st.split, st.rem, acc \o Yield(st.ret))

FragmentsOnly(s) == RunFragments(new(s).split, new(s).rem, <<>>)

\* C4: unescape returns the first error next_fragment yields on a fresh
\* iterator over the input, and if there is none, Ok of the concatenation
\* of the fragments yielded until None.
C4_UnescapeIsFragments ==
    pc = "done" =>
        LET run == FragmentsOnly(input)
        IN CASE run.outcome.tag = "Err" -> result = ResErr(run.outcome.err)
             [] run.outcome.tag = "None" ->
                    result.tag = "Ok" /\ result.cow.text = run.text
             [] OTHER -> result = ResPanic

C4_Witness ==
    /\ pc = "done" /\ result.tag = "Err"
    /\ out.owned /\ Len(out.text) >= 2

\* The number of backslashes that end s.
TrailingBackslashes(s) ==
    CHOOSE n \in 0..Len(s) :
        /\ \A i \in (Len(s) - n + 1)..Len(s) : s[i] = BSLASH
        /\ (n = Len(s) \/ s[Len(s) - n] # BSLASH)

\* C5: for an input p followed by n >= 1 backslashes, p without a backslash,
\* unescape returns p and n/2 backslashes if n is even and the error
\* IncompleteSequence if n is odd.
C5_TrailingBackslashes ==
    LET n == TrailingBackslashes(input)
        p == SubSeq(input, 1, Len(input) - n)
    IN (pc = "done" /\ n >= 1 /\ NoBackslash(p)) =>
           IF n % 2 = 0
           THEN /\ result.tag = "Ok"
                /\ result.cow.text = p \o [i \in 1..(n \div 2) |-> BSLASH]
           ELSE result = ResErr(IncompleteSequence)

C5_Witness ==
    /\ pc = "done" /\ result.tag = "Ok"
    /\ TrailingBackslashes(input) = 4 /\ Len(input) = 5 /\ input[1] # BSLASH

\* Hexadecimal digits and the number a run of them denotes.
IsHexChar(c) ==
    \/ c >= Ch0 /\ c <= Ch9
    \/ c >= Cha /\ c <= Chf
    \/ c >= ChA /\ c <= ChF

AllHex(ds) == \A i \in 1..Len(ds) : IsHexChar(ds[i])

HexDigitValue(c) ==
    IF c <= Ch9 THEN c - Ch0 ELSE IF c <= ChF THEN c - ChA + 10 ELSE c - Cha + 10

RECURSIVE StripZeros(_)
StripZeros(ds) ==
    IF Len(ds) > 1 /\ Head(ds) = Ch0 THEN StripZeros(Tail(ds)) ELSE ds

\* The value of at most 7 hexadecimal digits.
RECURSIVE HexValue(_)
HexValue(ds) ==
    IF ds = <<>> THEN 0
    ELSE HexValue(SubSeq(ds, 1, Len(ds) - 1)) * 16 + HexDigitValue(ds[Len(ds)])

FitsU32(ds) == Len(StripZeros(ds)) <= 8

\* The u32 that at most 8 significant hexadecimal digits denote.
HexU32(ds) ==
    LET n == StripZeros(ds)
        cut == IF Len(n) > 4 THEN Len(n) - 4 ELSE 0
    IN U32(HexValue(SubSeq(n, 1, cut)), HexValue(Drop(n, cut)))

IsScalarHex(ds) ==
    /\ Len(StripZeros(ds)) <= 6
    /\ HexValue(StripZeros(ds)) <= MaxChar
    /\ ~(HexValue(StripZeros(ds)) >= 55296 /\ HexValue(StripZeros(ds)) <= 57343)

\* The required width of the escape token tok, 0 if it is not a fixed-width
\* hexadecimal escape.
FixedWidth(tok) ==
    IF tok = <<>> THEN 0
    ELSE IF tok[1] = Chx THEN 2
    ELSE IF tok[1] = ChU THEN 8
    ELSE IF tok[1] = Chu /\ (Len(tok) < 2 \/ tok[2] # LBRACE) THEN 4
    ELSE 0

\* C6: a fixed-width escape of width N fails with IncompleteUnicode if fewer
\* than N characters follow the letter, with a parse-integer error if the N
\* characters are not all hexadecimal digits, and else, for a scalar value,
\* returns its character and the text after the N digits.
C6_FixedWidthHex ==
    (dec.some /\ FixedWidth(dec.token) > 0) =>
        LET N == FixedWidth(dec.token)
            body == Tail(dec.token)
            digits == SubSeq(body, 1, N)
        IN IF Len(body) < N THEN dec.res = DecErr(IncompleteUnicode)
           ELSE IF ~AllHex(digits)
                THEN dec.res.tag = "Err" /\ dec.res.err.kind = "ParseIntError"
           ELSE IsScalarHex(digits) =>
                    dec.res = DecOk(HexValue(StripZeros(digits)), Drop(body, N))

\* The digits of \u{N...}: the text between the '{' and the next '}', or the
\* end of the token.
BracedDigits(tok) == SubSeq(tok, 3, 2 + CountUntilBrace(Drop(tok, 2)))

\* The digits of a hexadecimal escape token whose digits are all valid: <<>>
\* if tok is not one.
HexEscapeDigits(tok) ==
    IF FixedWidth(tok) > 0
    THEN IF Len(tok) > FixedWidth(tok) /\ AllHex(SubSeq(tok, 2, 1 + FixedWidth(tok)))
         THEN SubSeq(tok, 2, 1 + FixedWidth(tok)) ELSE <<>>
    ELSE IF /\ Len(tok) >= 3 /\ tok[1] = Chu /\ tok[2] = LBRACE
            /\ AllHex(BracedDigits(tok))
         THEN BracedDigits(tok) ELSE <<>>

\* C7 as claimed: a numeric escape with valid digits of value v fails with
\* InvalidUnicode(v) if v is a surrogate or above 0x10FFFF, and else decodes
\* to the character v.
C7_InvalidCodePoint_Claimed ==
    dec.some =>
        /\ HexEscapeDigits(dec.token) # <<>> =>
               LET ds == HexEscapeDigits(dec.token)
               IN IF IsScalarHex(ds)
                  THEN dec.res.tag = "Ok" /\ dec.res.ch = HexValue(StripZeros(ds))
                  ELSE FitsU32(ds) /\ dec.res = DecErr(InvalidUnicode(HexU32(ds)))
        /\ IsOctalToken(dec) =>
               dec.res.tag = "Ok" /\ dec.res.ch = OctalChar(dec.token)

\* C7: a numeric escape with valid digits of value v decodes to the character
\* v if v is a scalar value, fails with InvalidUnicode(v) if v is a surrogate
\* or above 0x10FFFF and below 2^32, and fails with a parse-integer error
\* (overflow) if v is 2^32 or more.
C7_InvalidCodePoint ==
    dec.some =>
        /\ HexEscapeDigits(dec.token) # <<>> =>
               LET ds == HexEscapeDigits(dec.token)
               IN IF IsScalarHex(ds)
                  THEN dec.res.tag = "Ok" /\ dec.res.ch = HexValue(StripZeros(ds))
                  ELSE IF FitsU32(ds)
                  THEN dec.res = DecErr(InvalidUnicode(HexU32(ds)))
                  ELSE dec.res = DecErr(ParseIntError("PosOverflow"))
        /\ IsOctalToken(dec) =>
               dec.res.tag = "Ok" /\ dec.res.ch = OctalChar(dec.token)

C7_Witness ==
    /\ dec.some
    /\ HexEscapeDigits(dec.token) = <<ChD, ChD, Ch1, Ch1>>
    /\ dec.res = DecErr(InvalidUnicode(U32(0, 56593)))

====
